---------------------------- MODULE Spec2Model ----------------------------
(***************************************************************************)
(* A model of lwip-pong: the authoritative server thread (pong_thread in   *)
(* src/pong/pong.c: the accept phase, then the fixed-rate tick loop) and   *)
(* the client (src/unnamed/part_001): its snapshot decoder                 *)
(* process_game_state and the frame loop of main, with the ball prediction *)
(* and the line reassembly.                                                *)
(*                                                                         *)
(* Representation choices:                                                 *)
(*  - C strings and network payloads are TLA+ strings (sequences of        *)
(*    characters); strncmp, snprintf and sscanf are modelled on them.      *)
(*  - The C floats of the ball (x, y, dx, dy) are fixed-point integers in  *)
(*    units of 1/Milli of a field unit.                                    *)
(*  - sinf/cosf are tabulated, in units of 1/10000, for the rand() values  *)
(*    the model draws (RandValues).                                        *)
(*  - The client's clock counts 1/Second of a second.                      *)
(***************************************************************************)
EXTENDS Integers, Sequences, FiniteSets, TLC

(***************************************************************************)
(* Program constants, src/pong/pong.c:16-33                                *)
(***************************************************************************)
FPS == 60
FIELD_WIDTH == 80
FIELD_HEIGHT == 24
PADDLE_HEIGHT == 4
PADDLE_WIDTH == 2
PADDLE_OFFSET_X == 2
SERVE_TIME == FPS * 3
\* fixed-point resolution of the model's floats: 1 field unit = Milli units
Milli == 1000
\* INITIAL_BALL_SPEED 0.5f, in 1/Milli units
INITIAL_BALL_SPEED == 500
\* MAX_BALL_SPEED 1.2f, in 1/Milli units
MAX_BALL_SPEED == 1200
\* the 0.3f of reset_ball's redraw test, in the 1/10000 units of the table
MIN_SIN_E4 == 3000
\* SERVER_EXPECTED_MESSAGES of the client
SERVER_EXPECTED_MESSAGES == 9
\* BUFFER_SIZE of the client
BUFFER_SIZE == 256
\* the 60.0f of the client's prediction: the tick rate it assumes
ASSUMED_FPS == 60
\* resolution of the model's clock: GetTime() and GetFrameTime() count
\* 1/Second of a second, so that a frame of 1/60 s is a whole number
Second == 6000

\* typedef enum { NONE, UP, DOWN } Input;
NONE == "NONE"
UP == "UP"
DOWN == "DOWN"
Input == {NONE, UP, DOWN}

(***************************************************************************)
(* Bounds of the model                                                     *)
(***************************************************************************)
\* connections the listener accepts in one run
MaxConns == 3
\* ticks of the running engine explored after a full accept phase (Spec)
MaxLifeTicks == 2
\* ticks explored with both players sending freely (SpecDuel)
MaxDuelTicks == 11
\* first ticks of SpecDuel in which a read may also return a malformed message
MaxInputTicks == 2
\* ticks explored after the first point (SpecGame)
MaxPauseTicks == 3
\* ticks explored with the full ball physics (SpecGame)
MaxGameTicks == 460
\* ticks explored from each drawn state of the codec check (SpecCodec)
MaxCodecTicks == 2
\* rand() calls one reset_ball may make
MaxDraws == 2
\* netbufs one connection's receive queue holds (SpecNet)
MaxInbox == 2
\* ticks explored on top of the receive queues (SpecNet)
MaxNetTicks == 4
\* frames of the client explored (SpecClient)
MaxFrames == 3
\* lines the server writes to the client (SpecClient)
MaxWritten == 2
\* reads the client needs at most to take a stream off the wire (SpecReasm)
MaxReads == 3
\* ticks explored around a point and its serve (SpecServe)
MaxServeTicks == 3

(***************************************************************************)
(* C strings                                                               *)
(***************************************************************************)
Abs(n) == IF n < 0 THEN -n ELSE n

Min(a, b) == IF a < b THEN a ELSE b

DigitChars == <<"0", "1", "2", "3", "4", "5", "6", "7", "8", "9">>

IsDigit(c) == c \in {"0", "1", "2", "3", "4", "5", "6", "7", "8", "9"}

DigitVal(c) == (CHOOSE d \in 1..10 : DigitChars[d] = c) - 1

IsSpace(c) == c \in {" ", "\n", "\t", "\r"}

\* the i-th character of the C string s; past its end, the terminating NUL
\* (payloads carry no NUL here, so the string a buffer holds is all of it)
CharAt(s, i) == IF 1 <= i /\ i <= Len(s) THEN SubSeq(s, i, i) ELSE "NUL"

\* the characters strncmp(s, _, n) looks at: the first n, or all of s when
\* its NUL comes sooner
Prefix(s, n) == SubSeq(s, 1, Min(n, Len(s)))

\* strncmp(s, t, n) == 0: the two strings agree on their first n characters,
\* or end together before that
strncmp_eq(s, t, n) == Prefix(s, n) = Prefix(t, n)

RECURSIVE Digits(_)
\* the decimal digits of n >= 0
Digits(n) ==
    IF n < 10 THEN DigitChars[n + 1]
    ELSE Digits(n \div 10) \o DigitChars[(n % 10) + 1]

\* printf "%d"
FmtInt(n) == IF n < 0 THEN "-" \o Digits(-n) ELSE Digits(n)

\* a fixed-point value rounded to hundredths (half away from zero), as a
\* signed count of hundredths
RoundHundredths(v) ==
    LET a == Abs(v)
        h == (a * 100 + (Milli \div 2)) \div Milli
    IN  IF v < 0 THEN -h ELSE h

\* printf "%.2f" of a fixed-point value: the sign is that of the value, also
\* when it rounds to zero ("-0.00")
FmtFloat2(v) ==
    LET h == Abs(RoundHundredths(v))
    IN  (IF v < 0 THEN "-" ELSE "")
        \o Digits(h \div 100) \o "."
        \o DigitChars[((h \div 10) % 10) + 1] \o DigitChars[(h % 10) + 1]

(***************************************************************************)
(* sscanf, as process_game_state uses it (src/unnamed/part_001:217)        *)
(***************************************************************************)
RECURSIVE SkipSpace(_, _)
\* the first index at or after i that holds no white space
SkipSpace(s, i) == IF IsSpace(CharAt(s, i)) THEN SkipSpace(s, i + 1) ELSE i

RECURSIVE DigitsEnd(_, _)
\* the first index at or after i that holds no digit
DigitsEnd(s, i) == IF IsDigit(CharAt(s, i)) THEN DigitsEnd(s, i + 1) ELSE i

RECURSIVE NumVal(_, _, _)
\* the number the digits s[i..j-1] spell
NumVal(s, i, j) ==
    IF i >= j THEN 0 ELSE NumVal(s, i, j - 1) * 10 + DigitVal(CharAt(s, j - 1))

SignLen(s, i) == IF CharAt(s, i) \in {"-", "+"} THEN 1 ELSE 0

\* "%d": white space, an optional sign, at least one digit
ScanInt(s, i) ==
    LET j == SkipSpace(s, i)
        d == j + SignLen(s, j)
        e == DigitsEnd(s, d)
        v == NumVal(s, d, e)
    IN  [ok |-> e > d, val |-> IF CharAt(s, j) = "-" THEN -v ELSE v, next |-> e]

\* the k-th digit after the decimal point, 0 past the last one
FracDigit(s, f, e, k) ==
    IF f + k - 1 < e THEN DigitVal(CharAt(s, f + k - 1)) ELSE 0

\* "%f": white space, an optional sign, digits with an optional fraction,
\* at least one digit in all; the value in 1/Milli units, to the nearest
ScanFloat(s, i) ==
    LET j == SkipSpace(s, i)
        d == j + SignLen(s, j)
        e == DigitsEnd(s, d)
        dot == CharAt(s, e) = "."
        f == e + 1
        g == IF dot THEN DigitsEnd(s, f) ELSE e
        nfrac == IF dot THEN g - f ELSE 0
        frac == IF dot
                THEN FracDigit(s, f, g, 1) * 100 + FracDigit(s, f, g, 2) * 10
                     + FracDigit(s, f, g, 3)
                     + (IF FracDigit(s, f, g, 4) >= 5 THEN 1 ELSE 0)
                ELSE 0
        v == NumVal(s, d, e) * Milli + frac
    IN  [ok |-> (e - d) + nfrac > 0,
         val |-> IF CharAt(s, j) = "-" THEN -v ELSE v,
         next |-> g]

Lit(t) == [kind |-> "lit", text |-> t]

ConvD == [kind |-> "d", text |-> ""]

ConvF == [kind |-> "f", text |-> ""]

Comma == Lit(",")

STATE_PREFIX == "STATE:"

\* "STATE:%d,%d,%f,%f,%f,%f,%d,%d,%d"
StateFormat ==
    <<Lit(STATE_PREFIX), ConvD, Comma, ConvD, Comma, ConvF, Comma, ConvF, Comma,
      ConvF, Comma, ConvF, Comma, ConvD, Comma, ConvD, Comma, ConvD>>

LitMatch(s, i, t) == \A n \in 1..Len(t) : CharAt(s, i + n - 1) = CharAt(t, n)

RECURSIVE sscanf_from(_, _, _, _, _)
\* the values converted so far, scanning s from index i with the format's
\* items k..: sscanf stops at the first literal that does not match and at
\* the first conversion that fails
sscanf_from(s, i, fmt, k, vals) ==
    IF k > Len(fmt) THEN vals
    ELSE IF fmt[k].kind = "lit"
         THEN IF LitMatch(s, i, fmt[k].text)
              THEN sscanf_from(s, i + Len(fmt[k].text), fmt, k + 1, vals)
              ELSE vals
         ELSE CHOOSE out \in
                 {IF r.ok
                  THEN sscanf_from(s, r.next, fmt, k + 1, Append(vals, r.val))
                  ELSE vals :
                    r \in {IF fmt[k].kind = "d" THEN ScanInt(s, i)
                                               ELSE ScanFloat(s, i)}} : TRUE

sscanf(s, fmt) == sscanf_from(s, 1, fmt, 1, <<>>)

(***************************************************************************)
(* The client's decoder, src/unnamed/part_001:210-241                      *)
(***************************************************************************)
\* a decoder that eases the predicted ball half way towards the snapshot's
process_game_state_blended(line, state, pred, time) ==
    LET v == sscanf(line, StateFormat)
    IN  IF Len(v) = SERVER_EXPECTED_MESSAGES
        THEN [state |-> [state EXCEPT !.p1_y = v[1], !.p2_y = v[2],
                                       !.score1 = v[7], !.score2 = v[8],
                                       !.serve_timer = v[9]],
              predicted |-> [x |-> (pred.x + v[3]) \div 2,
                             y |-> (pred.y + v[4]) \div 2,
                             dx |-> v[5], dy |-> v[6],
                             last_update |-> time, valid |-> 1],
              ret |-> 1]
        ELSE [state |-> state, predicted |-> pred, ret |-> 0]

\* a decoder that keeps the fields a truncated line did convert
process_game_state_greedy(line, state, pred, time) ==
    LET v == sscanf(line, StateFormat)
        parsed == Len(v)
    IN  [state |-> [state EXCEPT
                      !.p1_y = IF parsed >= 1 THEN v[1] ELSE @,
                      !.p2_y = IF parsed >= 2 THEN v[2] ELSE @,
                      !.score1 = IF parsed >= 7 THEN v[7] ELSE @,
                      !.score2 = IF parsed >= 8 THEN v[8] ELSE @,
                      !.serve_timer = IF parsed >= 9 THEN v[9] ELSE @],
         predicted |-> [x |-> IF parsed >= 3 THEN v[3] ELSE pred.x,
                        y |-> IF parsed >= 4 THEN v[4] ELSE pred.y,
                        dx |-> IF parsed >= 5 THEN v[5] ELSE pred.dx,
                        dy |-> IF parsed >= 6 THEN v[6] ELSE pred.dy,
                        last_update |-> IF parsed = SERVER_EXPECTED_MESSAGES
                                        THEN time ELSE pred.last_update,
                        valid |-> IF parsed = SERVER_EXPECTED_MESSAGES
                                  THEN 1 ELSE pred.valid],
         ret |-> IF parsed = SERVER_EXPECTED_MESSAGES THEN 1 ELSE 0]

\* process_game_state(line, state) at time "time": the new GameState, the
\* new PredictedBall and the return value. line holds no newline: the caller
\* has cut the line at it.
process_game_state(line, state, pred, time) ==
    LET v == sscanf(line, StateFormat)
        parsed == Len(v)
    IN  IF parsed = SERVER_EXPECTED_MESSAGES
        THEN [state |-> [state EXCEPT !.p1_y = v[1], !.p2_y = v[2],
                                       !.score1 = v[7], !.score2 = v[8],
                                       !.serve_timer = v[9]],
              predicted |-> [x |-> v[3], y |-> v[4], dx |-> v[5], dy |-> v[6],
                             last_update |-> time, valid |-> 1],
              ret |-> 1]
        ELSE [state |-> state, predicted |-> pred, ret |-> 0]

(***************************************************************************)
(* Protocol lines                                                          *)
(***************************************************************************)
HELLO_1 == "HELLO:1"

HELLO_2 == "HELLO:2"

MSG_HELLO_1 == "HELLO:1\n"

MSG_HELLO_2 == "HELLO:2\n"

MSG_HELLO_3 == "HELLO:3\n"

MSG_HELLO_12 == "HELLO:12\n"

WELCOME_1 == "WELCOME 1\n"

WELCOME_2 == "WELCOME 2\n"

INPUT_UP == "INPUT:UP"

INPUT_DOWN == "INPUT:DOWN"

MSG_INPUT_UP == "INPUT:UP\n"

MSG_INPUT_DOWN == "INPUT:DOWN\n"

MSG_INPUT_IDLE == "INPUT:IDLE\n"

\* a line of five or more bytes that is no INPUT line
MSG_GARBAGE == "PING:1\n"

\* a payload of fewer than five bytes
MSG_SHORT == "UP\n"

\* netconn_recv returned an error or no netbuf
NoData == [ok |-> FALSE, data |-> "", after |-> ""]

\* netconn_recv returned a netbuf whose payload is d; "after" is what the
\* memory behind the payload holds (the payload carries no terminating NUL)
Recv(d) == [ok |-> TRUE, data |-> d, after |-> ""]

\* what the first netconn_recv of an accepted connection may return
HelloOutcomes ==
    {NoData, Recv(MSG_HELLO_1), Recv(MSG_HELLO_2), Recv(MSG_HELLO_3),
     Recv(MSG_HELLO_12), Recv(MSG_INPUT_UP)}

\* what one netconn_recv of the tick loop may return
InputOutcomes ==
    {NoData, Recv(MSG_INPUT_UP), Recv(MSG_INPUT_DOWN), Recv(MSG_INPUT_IDLE),
     Recv(MSG_GARBAGE), Recv(MSG_SHORT)}

\* nothing to read, or one of the client's three commands
CommandOutcomes ==
    {NoData, Recv(MSG_INPUT_UP), Recv(MSG_INPUT_DOWN), Recv(MSG_INPUT_IDLE)}

\* nothing to read, or the up key pressed
PressOutcomes == {NoData, Recv(MSG_INPUT_UP)}

\* nothing to read, or a key held up or down
KeyOutcomes == {NoData, Recv(MSG_INPUT_UP), Recv(MSG_INPUT_DOWN)}

\* nothing to read, or the down key pressed
DownOutcomes == {NoData, Recv(MSG_INPUT_DOWN)}

(***************************************************************************)
(* State                                                                   *)
(***************************************************************************)
VARIABLES
    pc,         \* where pong_thread is: "accept" (lines 139-176) or "run" (190-298)
    clients,    \* Client clients[2]: conn (0 is NULL) and id
    ready,      \* int ready
    nconn,      \* connections netconn_accept has returned so far
    conns,      \* per accepted connection: its first message, its fate, what it was sent
    p1, p2,     \* Player p1, p2
    ball,       \* Ball ball
    score1, score2,
    ticks,      \* iterations of the main game loop completed
    sent,       \* the netconn_write calls of the last step, in order
    ev,         \* what the last tick read, and what its collision and scoring steps did
    cstate,     \* the client's GameState
    predicted,  \* the client's PredictedBall
    now,        \* double now of the client's main (GetTime), in 1/Second s
    cret,       \* the last return value of process_game_state (-1: not called yet)
    clines,     \* lines the client has handed to process_game_state
    inbox,      \* per slot: the netbufs waiting in the connection's receive queue
    alive,      \* per slot: the transport of the connection still works
    buffer,     \* char buffer[] of the client's main: received, not yet a line
    wire,       \* bytes the server has written that the client has not read
    linkup,     \* the client's connection to the server still stands
    frames,     \* iterations of the client's main loop completed
    cev         \* what the client's last frame did, and what it has read so far

vars ==
    <<pc, clients, ready, nconn, conns, p1, p2, ball, score1, score2, ticks,
      sent, ev, cstate, predicted, now, cret, clines, inbox, alive,
      buffer, wire, linkup, frames, cev>>

serverVars ==
    <<pc, clients, ready, nconn, conns, p1, p2, ball, score1, score2, ticks, sent, ev>>

clientVars == <<cstate, predicted, now, cret, clines>>

gameVars == <<p1, p2, ball, score1, score2>>

netVars == <<inbox, alive>>

frameVars == <<buffer, wire, linkup, frames, cev>>

NULL == 0

(***************************************************************************)
(* Pure functions of the server                                            *)
(***************************************************************************)
\* a clamp with the first of the two tests only
clamp_top_only(y) == IF y < 0 THEN 0 ELSE y

\* clamp_paddle, on the paddle's y
clamp_paddle(y) ==
    LET y1 == IF y < 0 THEN 0 ELSE y
    IN  IF y1 > FIELD_HEIGHT - PADDLE_HEIGHT THEN FIELD_HEIGHT - PADDLE_HEIGHT ELSE y1

\* parse_input_line: line is the memory at the payload's address
parse_input_line(line) ==
    IF strncmp_eq(line, INPUT_UP, 8) THEN UP
    ELSE IF strncmp_eq(line, INPUT_DOWN, 10) THEN DOWN
    ELSE NONE

\* sinf(angle) and cosf(angle) in 1/10000, for
\* angle = (r / 1000.0f) * (M_PI / 3) - (M_PI / 6), tabulated for the values
\* of r = rand() % 1000 that the model draws
SinE4(r) ==
    CASE r = 0 -> -5000
      [] r = 210 -> -2990
      [] r = 500 -> 0
      [] r = 791 -> 3000
      [] r = 999 -> 4991

CosE4(r) ==
    CASE r = 0 -> 8660
      [] r = 210 -> 9542
      [] r = 500 -> 10000
      [] r = 791 -> 9539
      [] r = 999 -> 8665

\* the values rand() returns in the model
RandValues == {0, 1210, 2500, 3791, 4999}

\* a loop that keeps whatever angle comes first
AngleAlwaysKept(rv) == TRUE

\* the do-while of reset_ball keeps an angle unless fabsf(sinf(angle)) < 0.3f
AngleKept(rv) == ~(Abs(SinE4(rv % 1000)) < MIN_SIN_E4)

\* the sequences of values rand() may return during one reset_ball: the
\* call returns at the first value whose angle is kept
DrawSeqs ==
    {rs \in UNION {[1..n -> RandValues] : n \in 1..MaxDraws} :
        /\ AngleKept(rs[Len(rs)])
        /\ \A i \in 1..(Len(rs) - 1) : ~AngleKept(rs[i])}

\* a product of a fixed-point value and a table entry, to the nearest unit
MulE4(v, t) ==
    LET m == v * t
    IN  IF m < 0 THEN -((-m + 5000) \div 10000) ELSE (m + 5000) \div 10000

RECURSIVE DrawAngle(_, _)
\* the do-while of reset_ball from the i-th call of rand(): the value of
\* rand() % 1000 whose angle is kept
DrawAngle(rs, i) ==
    IF AngleKept(rs[i]) THEN rs[i] % 1000 ELSE DrawAngle(rs, i + 1)

\* a reset that always serves to the right, whoever serves
reset_ball_rightward(serving_player, rs) ==
    [x |-> (FIELD_WIDTH \div 2) * Milli,
     y |-> (FIELD_HEIGHT \div 2) * Milli,
     dx |-> MulE4(INITIAL_BALL_SPEED, CosE4(DrawAngle(rs, 1))),
     dy |-> MulE4(INITIAL_BALL_SPEED, SinE4(DrawAngle(rs, 1))),
     serve_timer |-> SERVE_TIME,
     speed |-> INITIAL_BALL_SPEED]

\* reset_ball(&ball, serving_player), rand() returning the values of rs
reset_ball(serving_player, rs) ==
    LET r == DrawAngle(rs, 1)
        speed == INITIAL_BALL_SPEED
        dir == IF serving_player = 1 THEN 1 ELSE -1
    IN  [x |-> (FIELD_WIDTH \div 2) * Milli,
         y |-> (FIELD_HEIGHT \div 2) * Milli,
         dx |-> dir * MulE4(speed, CosE4(r)),
         dy |-> MulE4(speed, SinE4(r)),
         serve_timer |-> SERVE_TIME,
         speed |-> speed]

\* lines 215-222: one unit per tick in the stored direction, then the clamp
MovePaddle(p) ==
    LET y1 == IF p.input = UP THEN p.y - 1 ELSE p.y
        y2 == IF p.input = DOWN THEN y1 + 1 ELSE y1
    IN  [p EXCEPT !.y = clamp_paddle(y2)]

\* a countdown that runs two ticks at a time
MoveBallHasty(b) ==
    IF b.serve_timer > 0
    THEN [b EXCEPT !.serve_timer = IF @ > 1 THEN @ - 2 ELSE 0]
    ELSE [b EXCEPT !.x = @ + b.dx, !.y = @ + b.dy]

\* a ball that drifts while the countdown runs
MoveBallDuringPause(b) ==
    IF b.serve_timer > 0
    THEN [b EXCEPT !.serve_timer = @ - 1, !.x = @ + b.dx, !.y = @ + b.dy]
    ELSE [b EXCEPT !.x = @ + b.dx, !.y = @ + b.dy]

\* lines 225-233: the serve countdown, or the ball's move
MoveBall(b) ==
    IF b.serve_timer > 0
    THEN [b EXCEPT !.serve_timer = @ - 1]
    ELSE [b EXCEPT !.x = @ + b.dx, !.y = @ + b.dy]

\* a bounce that also puts the ball back on the edge it crossed
BounceWallsClamped(b) ==
    IF b.y < 0
    THEN [b EXCEPT !.dy = -@, !.y = 0]
    ELSE IF b.y > (FIELD_HEIGHT - 1) * Milli
         THEN [b EXCEPT !.dy = -@, !.y = (FIELD_HEIGHT - 1) * Milli]
         ELSE b

\* lines 236-237: bounce on the top and bottom edges
BounceWalls(b) ==
    IF b.y < 0 \/ b.y > (FIELD_HEIGHT - 1) * Milli
    THEN [b EXCEPT !.dy = -@]
    ELSE b

\* lines 242-252: collision with paddle 1 (left)
HitPaddle1(b, p) ==
    IF /\ b.dx < 0
       /\ b.x <= (PADDLE_OFFSET_X + PADDLE_WIDTH) * Milli
       /\ b.y >= p.y * Milli
       /\ b.y <= (p.y + PADDLE_HEIGHT) * Milli
    THEN [b EXCEPT !.dx = -@]
    ELSE b

\* a right paddle that turns the ball whichever way it travels
HitPaddle2AnyDirection(b, p) ==
    IF /\ b.x >= (FIELD_WIDTH - PADDLE_OFFSET_X - PADDLE_WIDTH) * Milli
       /\ b.y >= p.y * Milli
       /\ b.y <= (p.y + PADDLE_HEIGHT) * Milli
    THEN [b EXCEPT !.dx = -@]
    ELSE b

\* a right paddle that sends the ball back 3% faster
HitPaddle2Faster(b, p) ==
    IF /\ b.dx > 0
       /\ b.x >= (FIELD_WIDTH - PADDLE_OFFSET_X - PADDLE_WIDTH) * Milli
       /\ b.y >= p.y * Milli
       /\ b.y <= (p.y + PADDLE_HEIGHT) * Milli
    THEN [b EXCEPT !.dx = -((@ * 103) \div 100), !.speed = (@ * 103) \div 100]
    ELSE b

\* lines 255-262: collision with paddle 2 (right)
HitPaddle2(b, p) ==
    IF /\ b.dx > 0
       /\ b.x >= (FIELD_WIDTH - PADDLE_OFFSET_X - PADDLE_WIDTH) * Milli
       /\ b.y >= p.y * Milli
       /\ b.y <= (p.y + PADDLE_HEIGHT) * Milli
    THEN [b EXCEPT !.dx = -@]
    ELSE b

\* line 265: the ball left the field on the left
OutLeft(b) == b.x < 0

\* a right boundary that lets the ball travel one cell past the field
OutRightLate(b) == b.x > (FIELD_WIDTH + 1) * Milli

\* line 269: the ball left the field on the right
OutRight(b) == b.x > FIELD_WIDTH * Milli

\* a scoring step that counts the point and leaves the ball where it is
ScoringWithoutReset(b, s1, s2, rs) ==
    IF OutLeft(b)
    THEN [ball |-> b, score1 |-> s1, score2 |-> s2 + 1]
    ELSE IF OutRight(b)
         THEN [ball |-> b, score1 |-> s1 + 1, score2 |-> s2]
         ELSE [ball |-> b, score1 |-> s1, score2 |-> s2]

\* lines 265-273: ball and scores after the scoring step; rs are the values
\* rand() returns if reset_ball is called
Scoring(b, s1, s2, rs) ==
    IF OutLeft(b)
    THEN [ball |-> reset_ball(1, rs), score1 |-> s1, score2 |-> s2 + 1]
    ELSE IF OutRight(b)
         THEN [ball |-> reset_ball(2, rs), score1 |-> s1 + 1, score2 |-> s2]
         ELSE [ball |-> b, score1 |-> s1, score2 |-> s2]

\* the values rand() may return during the scoring step, out of the
\* sequences D: none without a reset
ScoringDraws(b, D) == IF OutLeft(b) \/ OutRight(b) THEN D ELSE {<<>>}

\* a snapshot that writes the two scores in the other order
SerializeScoresSwapped(q1, q2, b, s1, s2) ==
    STATE_PREFIX
    \o FmtInt(q1.y) \o "," \o FmtInt(q2.y) \o ","
    \o FmtFloat2(b.x) \o "," \o FmtFloat2(b.y) \o ","
    \o FmtFloat2(b.dx) \o "," \o FmtFloat2(b.dy) \o ","
    \o FmtInt(s2) \o "," \o FmtInt(s1) \o ","
    \o FmtInt(b.serve_timer) \o "\n"

\* lines 276-282: snprintf(state, sizeof(state), "STATE:%d,%d,%.2f,...\n")
Serialize(q1, q2, b, s1, s2) ==
    LET line == STATE_PREFIX
                \o FmtInt(q1.y) \o "," \o FmtInt(q2.y) \o ","
                \o FmtFloat2(b.x) \o "," \o FmtFloat2(b.y) \o ","
                \o FmtFloat2(b.dx) \o "," \o FmtFloat2(b.dy) \o ","
                \o FmtInt(s1) \o "," \o FmtInt(s2) \o ","
                \o FmtInt(b.serve_timer) \o "\n"
    IN  SubSeq(line, 1, Min(Len(line), 127))

\* line 197: netconn_recv is called on clients[i] only if it holds a
\* connection; what the tick then got from it
ReadOutcome(i, r) == IF clients[i].conn # NULL THEN r ELSE NoData

\* a read attempt that forgets the stored command when nothing arrives
ReadInputTransient(i, r, ins) ==
    LET in == IF clients[i].conn # NULL /\ r.ok /\ Len(r.data) >= 5
              THEN parse_input_line(r.data \o r.after) ELSE NONE
    IN  IF i = 1 THEN <<in, ins[2]>> ELSE <<ins[1], in>>

\* a read attempt that stores the command with the other player
ReadInputCrossed(i, r, ins) ==
    IF clients[i].conn # NULL /\ r.ok
    THEN IF Len(r.data) >= 5
         THEN LET in == parse_input_line(r.data \o r.after)
              IN  IF clients[i].id = 1 THEN <<ins[1], in>> ELSE <<in, ins[2]>>
         ELSE ins
    ELSE ins

\* lines 197-211: one read attempt on clients[i]; ins is <<p1.input, p2.input>>
ReadInput(i, r, ins) ==
    IF clients[i].conn # NULL /\ r.ok
    THEN IF Len(r.data) >= 5
         THEN LET in == parse_input_line(r.data \o r.after)
              IN  IF clients[i].id = 1 THEN <<in, ins[2]>> ELSE <<ins[1], in>>
         ELSE ins
    ELSE ins

\* a broadcast that writes to clients[0] alone
BroadcastToFirst(state) ==
    IF clients[1].conn # NULL THEN <<[to |-> clients[1].conn, data |-> state]>>
    ELSE <<>>

\* lines 285-292: the netconn_write calls of the broadcast, in order
Broadcast(state) ==
    LET w(i) == [to |-> clients[i].conn, data |-> state]
    IN  (IF clients[1].conn # NULL THEN <<w(1)>> ELSE <<>>)
        \o (IF clients[2].conn # NULL THEN <<w(2)>> ELSE <<>>)

\* the number of writes of ws that go to connection c
WritesTo(ws, c) == Cardinality({k \in 1..Len(ws) : ws[k].to = c})

(***************************************************************************)
(* The server thread, pong_thread                                          *)
(***************************************************************************)
\* Player p = {FIELD_HEIGHT / 2 - PADDLE_HEIGHT / 2, NONE}, lines 179-180
InitialPlayer == [y |-> FIELD_HEIGHT \div 2 - PADDLE_HEIGHT \div 2, input |-> NONE]

\* the locals of the game, not yet initialised during the accept phase
NoPlayer == [y |-> 0, input |-> NONE]

NoBall == [x |-> 0, y |-> 0, dx |-> 0, dy |-> 0, serve_timer |-> 0, speed |-> 0]

\* no tick has run: nothing was read, nothing bounced, hit a paddle or left
\* the field
NoEvents ==
    [recv1 |-> NoData, recv2 |-> NoData,
     bounce |-> FALSE, hit1 |-> FALSE, hit2 |-> FALSE, out |-> "none"]

\* PredictedBall predicted = {0}
InitialPredicted ==
    [x |-> 0, y |-> 0, dx |-> 0, dy |-> 0, last_update |-> 0, valid |-> 0]

\* the client process modelled is the one started as player 1
InitClient ==
    /\ cstate = [is_player1 |-> 1, p1_y |-> 0, p2_y |-> 0, score1 |-> 0,
                 score2 |-> 0, serve_timer |-> 0]
    /\ predicted = InitialPredicted
    /\ now = 0
    /\ cret = -1
    /\ clines = 0

\* nothing is queued on either connection and both transports work
InitNet ==
    /\ inbox = <<<<>>, <<>>>>
    /\ alive = <<TRUE, TRUE>>

\* the client has read nothing: its buffer is empty (line 289), nothing is in
\* flight to it
NoFrame ==
    [dt |-> 0, wait |-> 0, n |-> 0, pred |-> InitialPredicted, lines |-> <<>>,
     applied |-> 0, snapAt |-> -1, fed |-> "", handed |-> <<>>, written |-> 0]

InitFrame ==
    /\ buffer = ""
    /\ wire = ""
    /\ linkup = TRUE
    /\ frames = 0
    /\ cev = NoFrame

\* lines 133-136, before the first netconn_accept
Init ==
    /\ pc = "accept"
    /\ clients = [i \in 1..2 |-> [conn |-> NULL, id |-> 0]]
    /\ ready = 0
    /\ nconn = 0
    /\ conns = <<>>
    /\ p1 = NoPlayer
    /\ p2 = NoPlayer
    /\ ball = NoBall
    /\ score1 = 0
    /\ score2 = 0
    /\ ticks = 0
    /\ sent = <<>>
    /\ ev = NoEvents
    /\ InitClient
    /\ InitNet
    /\ InitFrame

\* an accept loop that ends as soon as one player is bound
OnePlayerSuffices == ready < 1

\* line 140: while (ready < 2)
AcceptLoopCond == ready < 2

\* line 153-155: the first 31 bytes of the handshake message, or "" when
\* netconn_recv failed
HandshakeBuf(r) == IF r.ok THEN SubSeq(r.data, 1, Min(Len(r.data), 31)) ELSE ""

\* the test of line 160 without its second half: slot 1 is given again
ClaimsSlot1Again(buf) == strncmp_eq(buf, HELLO_1, 7)

\* line 160
ClaimsSlot1(buf) == strncmp_eq(buf, HELLO_1, 7) /\ clients[1].conn = NULL

\* line 164
ClaimsSlot2(buf) == strncmp_eq(buf, HELLO_2, 7) /\ clients[2].conn = NULL

\* what the model keeps of an accepted connection: the outcome of its first
\* read, whether the server still holds it open, and what it was sent
ConnRecord(r, st, welcome) ==
    [hello |-> r, state |-> st, welcome |-> welcome, nstate |-> 0]

\* lines 141-174: one iteration of the accept loop whose netconn_accept
\* returned a connection; r is the outcome of netconn_recv on it
AcceptWith(r) ==
    /\ pc = "accept"
    /\ AcceptLoopCond
    /\ nconn < MaxConns
    /\ LET conn == nconn + 1
           buf == HandshakeBuf(r)
       IN  /\ nconn' = conn
           /\ IF ClaimsSlot1(buf)
              THEN /\ clients' = [clients EXCEPT ![1] = [conn |-> conn, id |-> 1]]
                   /\ sent' = <<[to |-> conn, data |-> WELCOME_1]>>
                   /\ ready' = ready + 1
                   /\ conns' = Append(conns, ConnRecord(r, "open", <<WELCOME_1>>))
              ELSE IF ClaimsSlot2(buf)
                   THEN /\ clients' = [clients EXCEPT ![2] = [conn |-> conn, id |-> 2]]
                        /\ sent' = <<[to |-> conn, data |-> WELCOME_2]>>
                        /\ ready' = ready + 1
                        /\ conns' = Append(conns, ConnRecord(r, "open", <<WELCOME_2>>))
                   ELSE /\ conns' = Append(conns, ConnRecord(r, "closed", <<>>))
                        /\ sent' = <<>>
                        /\ UNCHANGED <<clients, ready>>
    /\ UNCHANGED <<pc, gameVars, ticks, ev, clientVars, netVars, frameVars>>

Accept == \E r \in HelloOutcomes : AcceptWith(r)

\* lines 178-188: the accept loop has ended; the game state is initialised
\* and player 1 serves. rs are the values rand() returns in reset_ball
StartGameWith(rs) ==
    /\ pc = "accept"
    /\ ~AcceptLoopCond
    /\ pc' = "run"
    /\ p1' = InitialPlayer
    /\ p2' = InitialPlayer
    /\ score1' = 0
    /\ score2' = 0
    /\ ball' = reset_ball(1, rs)
    /\ sent' = <<>>
    /\ UNCHANGED <<clients, ready, nconn, conns, ticks, ev, clientVars, netVars, frameVars>>

StartGame == \E rs \in DrawSeqs : StartGameWith(rs)

\* lines 191-298: one iteration of the main game loop; r1 and r2 are the
\* outcomes of netconn_recv on clients[0] and clients[1], D the sequences of
\* values rand() may return
TickWith(r1, r2, D) ==
    /\ pc = "run"
    /\ LET ins == ReadInput(2, r2, ReadInput(1, r1, <<p1.input, p2.input>>))
       IN  /\ p1' = MovePaddle([p1 EXCEPT !.input = ins[1]])
           /\ p2' = MovePaddle([p2 EXCEPT !.input = ins[2]])
    /\ \E b1 \in {MoveBall(ball)} :
       \E b2 \in {BounceWalls(b1)} :
       \E b3 \in {HitPaddle1(b2, p1')} :
       \E b4 \in {HitPaddle2(b3, p2')} :
       \E rs \in ScoringDraws(b4, D) :
       \E sc \in {Scoring(b4, score1, score2, rs)} :
          /\ ball' = sc.ball
          /\ score1' = sc.score1
          /\ score2' = sc.score2
          /\ ev' = [recv1 |-> ReadOutcome(1, r1),
                    recv2 |-> ReadOutcome(2, r2),
                    bounce |-> b2.dy # b1.dy,
                    hit1 |-> b3.dx # b2.dx,
                    hit2 |-> b4.dx # b3.dx,
                    out |-> IF OutLeft(b4) THEN "left"
                            ELSE IF OutRight(b4) THEN "right" ELSE "none"]
    /\ sent' = Broadcast(Serialize(p1', p2', ball', score1', score2'))
    /\ conns' = [c \in DOMAIN conns |->
                   [conns[c] EXCEPT !.nstate = @ + WritesTo(sent', c)]]
    /\ ticks' = ticks + 1
    /\ UNCHANGED <<pc, clients, ready, nconn, clientVars>>

\* the full lifecycle: the accept phase, then a few ticks
TickLife ==
    /\ ticks < MaxLifeTicks
    /\ \E r1, r2 \in PressOutcomes : TickWith(r1, r2, DrawSeqs)
    /\ UNCHANGED <<netVars, frameVars>>

Next == Accept \/ StartGame \/ TickLife

Spec == Init /\ [][Next]_vars

(***************************************************************************)
(* The running engine, from the state the accept phase leaves when the     *)
(* first connection claimed slot 1 and the second slot 2                   *)
(***************************************************************************)
InitPlay ==
    /\ pc = "accept"
    /\ clients = [i \in 1..2 |-> [conn |-> i, id |-> i]]
    /\ ready = 2
    /\ nconn = 2
    /\ conns = <<ConnRecord(Recv(MSG_HELLO_1), "open", <<WELCOME_1>>),
                 ConnRecord(Recv(MSG_HELLO_2), "open", <<WELCOME_2>>)>>
    /\ p1 = NoPlayer
    /\ p2 = NoPlayer
    /\ ball = NoBall
    /\ score1 = 0
    /\ score2 = 0
    /\ ticks = 0
    /\ sent = <<[to |-> 2, data |-> WELCOME_2]>>
    /\ ev = NoEvents
    /\ InitClient
    /\ InitNet
    /\ InitFrame

\* rand() outside Spec: a flat angle is redrawn, then -30 degrees is kept
GameDrawSeqs == {rs \in DrawSeqs : rs[Len(rs)] = 0}

StartServe == \E rs \in GameDrawSeqs : StartGameWith(rs)

\* in the first ticks a read on either connection may return anything
TickInput ==
    /\ ticks < MaxInputTicks
    /\ \E r1, r2 \in InputOutcomes : TickWith(r1, r2, GameDrawSeqs)
    /\ UNCHANGED <<netVars, frameVars>>

\* later player 1 sends any command and player 2 presses down or sends nothing
TickDuel ==
    /\ MaxInputTicks <= ticks /\ ticks < MaxDuelTicks
    /\ \E r1 \in CommandOutcomes, r2 \in DownOutcomes : TickWith(r1, r2, GameDrawSeqs)
    /\ UNCHANGED <<netVars, frameVars>>

NextDuel == StartServe \/ TickInput \/ TickDuel

SpecDuel == InitPlay /\ [][NextDuel]_vars

(***************************************************************************)
(* The full ball physics up to the first point: one player holds keys, the *)
(* other's paddle rests where the game put it                              *)
(***************************************************************************)
\* the match is explored up to the first point and a few ticks beyond
GameHorizon ==
    /\ ticks < MaxGameTicks
    /\ score1 + score2 = 0 \/ ball.serve_timer > SERVE_TIME - MaxPauseTicks

TickPlayer1 ==
    /\ GameHorizon
    /\ p2 = InitialPlayer
    /\ \E r1 \in KeyOutcomes : TickWith(r1, NoData, GameDrawSeqs)
    /\ UNCHANGED <<netVars, frameVars>>

TickPlayer2 ==
    /\ GameHorizon
    /\ p1 = InitialPlayer
    /\ \E r2 \in KeyOutcomes : TickWith(NoData, r2, GameDrawSeqs)
    /\ UNCHANGED <<netVars, frameVars>>

NextGame == StartServe \/ TickPlayer1 \/ TickPlayer2

SpecGame == InitPlay /\ [][NextGame]_vars

(***************************************************************************)
(* The snapshot codec: the server's tick serialises a state drawn from     *)
(* bounded sets, the client decodes the line                               *)
(***************************************************************************)
\* lines 326-339 of the client for a receive that brings exactly one whole
\* line into an empty buffer: the line is cut at its newline and handed to
\* process_game_state
ClientRecv ==
    /\ clines < ticks
    /\ \E k \in 1..Len(sent) :
          /\ sent[k].to = clients[1].conn
          /\ CharAt(sent[k].data, Len(sent[k].data)) = "\n"
          /\ \E line \in {SubSeq(sent[k].data, 1, Len(sent[k].data) - 1)} :
             \E res \in {process_game_state(line, cstate, predicted, now)} :
                /\ cstate' = res.state
                /\ predicted' = res.predicted
                /\ cret' = res.ret
    /\ clines' = clines + 1
    /\ UNCHANGED <<serverVars, now, netVars, frameVars>>

\* a ball in flight, or one waiting at the centre for its serve
CodecBalls ==
    {[x |-> x, y |-> y, dx |-> dx, dy |-> dy, serve_timer |-> 0,
      speed |-> INITIAL_BALL_SPEED] :
        x \in {400, 600, 4562, 40000, 79500, 79990},
        y \in {5, 248, 12000, 22996, 23100},
        dx \in {433, -477}, dy \in {-250, 150}}
    \cup
    {[x |-> (FIELD_WIDTH \div 2) * Milli, y |-> (FIELD_HEIGHT \div 2) * Milli,
      dx |-> dx, dy |-> dy, serve_timer |-> t, speed |-> INITIAL_BALL_SPEED] :
        dx \in {433, -477}, dy \in {-250, 150}, t \in {1, SERVE_TIME}}

InitCodec ==
    /\ pc = "run"
    /\ clients = [i \in 1..2 |-> [conn |-> i, id |-> i]]
    /\ ready = 2
    /\ nconn = 2
    /\ conns = <<ConnRecord(Recv(MSG_HELLO_1), "open", <<WELCOME_1>>),
                 ConnRecord(Recv(MSG_HELLO_2), "open", <<WELCOME_2>>)>>
    /\ p1 \in {[y |-> y, input |-> NONE] : y \in {0, 7, 20}}
    /\ p2 \in {[y |-> y, input |-> i] : y \in {10}, i \in {NONE, DOWN}}
    /\ ball \in CodecBalls
    /\ score1 \in {0, 1234}
    /\ score2 \in {0, 7}
    /\ ticks = 0
    /\ sent = <<>>
    /\ ev = NoEvents
    /\ InitClient
    /\ InitNet
    /\ InitFrame

\* the server ticks once the client has decoded the previous snapshot
TickCodec ==
    /\ ticks < MaxCodecTicks
    /\ clines = ticks
    /\ TickWith(NoData, NoData, GameDrawSeqs)
    /\ UNCHANGED <<netVars, frameVars>>

NextCodec == TickCodec \/ ClientRecv

SpecCodec == InitCodec /\ [][NextCodec]_vars

(***************************************************************************)
(* The tick loop on top of the connections' receive queues                 *)
(***************************************************************************)
\* two commands of one client that travel in one TCP segment
MSG_UP_THEN_DOWN == MSG_INPUT_UP \o MSG_INPUT_DOWN

\* the segments the client of slot i sends: player 1 presses up, releases,
\* or has an up and a down coalesced; player 2 presses down
Segments(i) ==
    IF i = 1 THEN {MSG_INPUT_UP, MSG_INPUT_IDLE, MSG_UP_THEN_DOWN}
    ELSE {MSG_INPUT_DOWN}

\* a segment of client i arrives: lwIP queues its payload as one netbuf on
\* the connection
Arrive(i, d) ==
    /\ pc = "run"
    /\ alive[i]
    /\ Len(inbox[i]) < MaxInbox
    /\ inbox' = [inbox EXCEPT ![i] = Append(@, d)]
    /\ UNCHANGED <<serverVars, clientVars, alive, frameVars>>

\* the client of slot i vanishes and its connection is reset: from now on
\* netconn_recv (once the queue is drained) and netconn_write on it fail
Vanish(i) ==
    /\ pc = "run"
    /\ alive[i]
    /\ alive' = [alive EXCEPT ![i] = FALSE]
    /\ UNCHANGED <<serverVars, clientVars, inbox, frameVars>>

\* a receive that returns only with data, also on a failed connection
RecvWaitsForData(i) == inbox[i] # <<>>

\* line 197: netconn_recv(clients[i].conn, &nbuf) returns. pong_thread sets
\* neither a receive timeout nor the non-blocking flag on the connection, so
\* the call waits until the queue holds a netbuf or the transport has failed
RecvReturns(i) == inbox[i] # <<>> \/ ~alive[i]

\* what the call returns: the oldest netbuf, or an error
RecvResult(i) == IF inbox[i] # <<>> THEN Recv(Head(inbox[i])) ELSE NoData

\* one iteration of the main loop: each netconn_recv takes one netbuf off
\* its queue, and netbuf_delete (line 210) frees all of it
TickNet ==
    /\ ticks < MaxNetTicks
    /\ RecvReturns(1) /\ RecvReturns(2)
    /\ TickWith(RecvResult(1), RecvResult(2), GameDrawSeqs)
    /\ inbox' = [i \in 1..2 |-> IF inbox[i] # <<>> THEN Tail(inbox[i]) ELSE <<>>]
    /\ UNCHANGED <<alive, frameVars>>

NextNet ==
    \/ StartServe
    \/ \E i \in 1..2 : \E d \in Segments(i) : Arrive(i, d)
    \/ \E i \in 1..2 : Vanish(i)
    \/ TickNet

SpecNet == InitPlay /\ [][NextNet]_vars

(***************************************************************************)
(* The client's main loop, src/unnamed/part_001:293-344                    *)
(***************************************************************************)
\* the snapshot of a ball in flight, and one of a later serve
SNAP_A == "STATE:10,12,40.00,12.00,0.50,0.10,0,0,0\n"

SNAP_B == "STATE:9,13,38.50,11.70,-0.50,-0.10,1,2,180\n"

\* a STATE line cut after its third field
LINE_TRUNCATED == "STATE:7,8,1.00\n"

LINE_GARBAGE == "PONG\n"

\* what the server may write to the connection of player 1
ServerLines == {WELCOME_1, SNAP_A, SNAP_B, LINE_TRUNCATED, LINE_GARBAGE}

\* a prediction step that takes the velocity as units per frame shown
AdvancePerFrame(v, d, dt) == v + d

\* lines 315-316: v += d * dt * 60.0f
Advance(v, d, dt) == v + (d * dt * ASSUMED_FPS) \div Second

\* lines 299-321: the prediction block of a frame that starts at time t and
\* whose GetFrameTime() is dt
PredictStep(pred, t, dt) ==
    IF pred.valid # 0 /\ t - pred.last_update < Second
    THEN [pred EXCEPT !.x = Advance(@, pred.dx, dt),
                      !.y = Advance(@, pred.dy, dt),
                      !.last_update = t]
    ELSE pred

RECURSIVE strchr_nl(_, _)
\* strchr(buffer, '\n') looking from index i on: the index of the first
\* newline, 0 (NULL) when there is none
strchr_nl(s, i) ==
    IF i > Len(s) THEN 0
    ELSE IF SubSeq(s, i, i) = "\n" THEN i
    ELSE strchr_nl(s, i + 1)

\* a shift that empties the buffer
ResidueDropped(buf, nl) == ""

\* line 338: memmove(buffer, line + 1, strlen(line + 1) + 1)
Residue(buf, nl) == SubSeq(buf, nl + 1, Len(buf))

RECURSIVE LineLoop(_, _)
\* lines 335-339: while the buffer holds a newline, the line before it is
\* handed to process_game_state and removed from the buffer. c carries the
\* buffer, the GameState, the PredictedBall, the lines handed over, how many
\* of them were applied and the last return value
LineLoop(c, time) ==
    CHOOSE out \in
      {IF nl = 0 THEN c
       ELSE CHOOSE o \in
              {LineLoop([buffer |-> Residue(c.buffer, nl),
                         state |-> res.state,
                         predicted |-> res.predicted,
                         lines |-> Append(c.lines, SubSeq(c.buffer, 1, nl - 1)),
                         applied |-> c.applied + res.ret,
                         ret |-> res.ret], time) :
                 res \in {process_game_state(SubSeq(c.buffer, 1, nl - 1),
                                             c.state, c.predicted, time)}} : TRUE :
         nl \in {strchr_nl(c.buffer, 1)}} : TRUE

\* the server writes a line to the connection
ServerWrites(line) ==
    /\ linkup
    /\ cev.written < MaxWritten
    /\ wire' = wire \o line
    /\ cev' = [cev EXCEPT !.written = @ + 1]
    /\ UNCHANGED <<serverVars, clientVars, netVars, buffer, linkup, frames>>

\* the server goes away and the connection is closed: once the client has
\* read what was written, its recv returns 0 at once
ServerGone ==
    /\ linkup
    /\ linkup' = FALSE
    /\ UNCHANGED <<serverVars, clientVars, netVars, buffer, wire, frames, cev>>

\* one iteration of the main loop. It starts dt after the previous one did
\* (lines 294, 302); the prediction block runs; handle_input sends the key
\* state; recv (line 328: a blocking socket, no flags) returns after w with
\* the first n bytes on the wire, at most BUFFER_SIZE - 1, or with 0 when the
\* connection is closed; strcat appends them to buffer and the line loop
\* runs, process_game_state reading the clock at that time
FrameWith(dt, w, n) ==
    /\ dt >= cev.wait
    /\ wire # "" \/ ~linkup
    /\ \E top \in {now + dt} :
       \E p \in {PredictStep(predicted, top, dt)} :
       \E chunk \in {SubSeq(wire, 1, Min(n, Min(Len(wire), BUFFER_SIZE - 1)))} :
       \E c0 \in {[buffer |-> buffer, state |-> cstate, predicted |-> p,
                   lines |-> <<>>, applied |-> 0, ret |-> cret]} :
       \E c \in {IF Len(chunk) > 0
                 THEN LineLoop([c0 EXCEPT !.buffer = buffer \o chunk], top + w)
                 ELSE c0} :
          /\ now' = top
          /\ cstate' = c.state
          /\ predicted' = c.predicted
          /\ cret' = c.ret
          /\ clines' = clines + Len(c.lines)
          /\ buffer' = c.buffer
          /\ wire' = SubSeq(wire, Len(chunk) + 1, Len(wire))
          /\ cev' = [cev EXCEPT !.dt = dt, !.wait = w, !.n = Len(chunk),
                                !.pred = p, !.lines = c.lines,
                                !.applied = c.applied,
                                !.snapAt = IF c.applied > 0 THEN top + w ELSE @,
                                !.fed = @ \o chunk,
                                !.handed = @ \o c.lines]
    /\ frames' = frames + 1
    /\ UNCHANGED <<serverVars, netVars, linkup>>

\* a frame at 60 per second, one of two thirds of a second and one of a
\* second and a half
FrameTimes == {Second \div 60, 2 * (Second \div 3), 3 * (Second \div 2)}

\* recv finds the data there, or waits half a second for it
Waits == {0, Second \div 2}

\* recv returns all the bytes on the wire, up to the size it asks for (reads
\* that cut lines are explored in SpecReasm)
ReadSizes == {BUFFER_SIZE - 1}

Frame ==
    /\ frames < MaxFrames
    /\ \E dt \in FrameTimes, w \in Waits, n \in ReadSizes :
          /\ w > 0 => wire # ""
          /\ FrameWith(dt, w, n)

NextClient ==
    \/ \E line \in ServerLines : ServerWrites(line)
    \/ ServerGone
    \/ Frame

SpecClient == InitPlay /\ [][NextClient]_vars

(***************************************************************************)
(* Line reassembly: a stream is on the wire and the client takes it off    *)
(* in reads of any sizes                                                   *)
(***************************************************************************)
\* the welcome and a snapshot, then the start of the next snapshot; two
\* short lines; bytes without a newline
Streams ==
    {WELCOME_1 \o SNAP_A \o "STATE:1", LINE_GARBAGE \o LINE_TRUNCATED, "STA"}

InitReasm ==
    /\ pc = "run"
    /\ clients = [i \in 1..2 |-> [conn |-> i, id |-> i]]
    /\ ready = 2
    /\ nconn = 2
    /\ conns = <<ConnRecord(Recv(MSG_HELLO_1), "open", <<WELCOME_1>>),
                 ConnRecord(Recv(MSG_HELLO_2), "open", <<WELCOME_2>>)>>
    /\ p1 = InitialPlayer
    /\ p2 = InitialPlayer
    /\ ball = NoBall
    /\ score1 = 0
    /\ score2 = 0
    /\ ticks = 0
    /\ sent = <<>>
    /\ ev = NoEvents
    /\ InitClient
    /\ InitNet
    /\ buffer = ""
    /\ wire \in Streams
    /\ linkup = TRUE
    /\ frames = 0
    /\ cev = NoFrame

FrameRead ==
    /\ frames < MaxReads
    /\ \E n \in 1..Len(wire) : FrameWith(Second \div 60, 0, n)

NextReasm == FrameRead

SpecReasm == InitReasm /\ [][NextReasm]_vars

(***************************************************************************)
(* Serves: the first one, and the one after a point, with every sequence   *)
(* of values rand() may return                                             *)
(***************************************************************************)
\* a ball about to leave the field on either side, clear of the paddles
DepartingBalls ==
    {[x |-> x, y |-> y, dx |-> dx, dy |-> dy, serve_timer |-> 0, speed |-> sp] :
        x \in {300}, y \in {2000, 20000}, dx \in {-433, -520}, dy \in {-250, 150},
        sp \in {INITIAL_BALL_SPEED, INITIAL_BALL_SPEED + 100}}
    \cup
    {[x |-> x, y |-> y, dx |-> dx, dy |-> dy, serve_timer |-> 0, speed |-> sp] :
        x \in {79800}, y \in {2000, 20000}, dx \in {433, 520}, dy \in {-250, 150},
        sp \in {INITIAL_BALL_SPEED, INITIAL_BALL_SPEED + 100}}

\* the main loop with such a ball
InitPoint ==
    /\ pc = "run"
    /\ clients = [i \in 1..2 |-> [conn |-> i, id |-> i]]
    /\ ready = 2
    /\ nconn = 2
    /\ conns = <<ConnRecord(Recv(MSG_HELLO_1), "open", <<WELCOME_1>>),
                 ConnRecord(Recv(MSG_HELLO_2), "open", <<WELCOME_2>>)>>
    /\ p1 = InitialPlayer
    /\ p2 = InitialPlayer
    /\ ball \in DepartingBalls
    /\ score1 \in {0, 3}
    /\ score2 \in {0, 5}
    /\ ticks = 0
    /\ sent = <<>>
    /\ ev = NoEvents
    /\ InitClient
    /\ InitNet
    /\ InitFrame

\* the end of the accept phase, or a rally about to end
InitServe == InitPlay \/ InitPoint

TickServe ==
    /\ ticks < MaxServeTicks
    /\ TickWith(NoData, NoData, DrawSeqs)
    /\ UNCHANGED <<netVars, frameVars>>

NextServe == StartGame \/ TickServe

SpecServe == InitServe /\ [][NextServe]_vars

(***************************************************************************)
(* Properties                                                              *)
(***************************************************************************)
\* a step of the main game loop
IsTick == ticks' = ticks + 1

\* the paddle's y lies in the field
PaddleInField(p) == 0 <= p.y /\ p.y <= FIELD_HEIGHT - PADDLE_HEIGHT

\* the move a stored command asks for
CommandDelta(in) == IF in = UP THEN -1 ELSE IF in = DOWN THEN 1 ELSE 0

\* q is p one tick later: one unit in the direction of the command the tick
\* applied, cut at the edges of the field
PaddleStep(p, q) ==
    LET t == p.y + CommandDelta(q.input)
    IN  /\ q.y = IF t < 0 THEN 0
                 ELSE IF t > FIELD_HEIGHT - PADDLE_HEIGHT
                      THEN FIELD_HEIGHT - PADDLE_HEIGHT ELSE t
        /\ Abs(q.y - p.y) <= 1

\* C1: in every state of the tick loop both paddles lie in [0, 20], whatever
\* was read (UP, DOWN, IDLE, garbage, nothing), and a tick moves a paddle by
\* -1 for UP, +1 for DOWN, 0 for NONE before the clamp: at most one unit
C1_PaddleBounds ==
    /\ [](pc = "run" => PaddleInField(p1) /\ PaddleInField(p2))
    /\ [][IsTick => PaddleStep(p1, p1') /\ PaddleStep(p2, p2')]_vars

\* player 1 held up and player 2 down until both paddles met their edge
C1_Witness ==
    /\ ticks = MaxDuelTicks
    /\ p1.y = 0 /\ p1.input = UP
    /\ p2.y = FIELD_HEIGHT - PADDLE_HEIGHT /\ p2.input = DOWN

\* the ball's x after the integration step of a tick that starts in the
\* current state (lines 225-233)
IntegratedX == IF ball.serve_timer > 0 THEN ball.x ELSE ball.x + ball.dx

BallLeftField == IntegratedX < 0 \/ IntegratedX > FIELD_WIDTH * Milli

ScoreUnchanged == score1' = score1 /\ score2' = score2

OneMorePoint ==
    \/ score1' = score1 + 1 /\ score2' = score2
    \/ score1' = score1 /\ score2' = score2 + 1

\* C2: across a tick the scores are unchanged or exactly one of them grows
\* by exactly one; a point is counted if and only if the ball's x after the
\* integration is < 0 or > FIELD_WIDTH; and the tick that counts the point
\* puts the ball back in the field with the serve countdown running, so the
\* following ticks do not count the same exit again
C2_ScoreByOne ==
    [][IsTick =>
          /\ ScoreUnchanged \/ OneMorePoint
          /\ OneMorePoint <=> BallLeftField
          /\ OneMorePoint =>
                /\ ball'.serve_timer > 0
                /\ 0 <= ball'.x /\ ball'.x <= FIELD_WIDTH * Milli
          /\ ball.serve_timer > 0 => ScoreUnchanged]_vars

\* the tick after a point: the countdown has begun, the scores stayed
C2_Witness ==
    /\ score1 + score2 = 1
    /\ ball.serve_timer = SERVE_TIME - 1
    /\ ev.out = "none"

\* the ball at the centre of the field, the countdown at SERVE_TIME
AtCentreForServe(b) ==
    /\ b.x = (FIELD_WIDTH \div 2) * Milli
    /\ b.y = (FIELD_HEIGHT \div 2) * Milli
    /\ b.serve_timer = SERVE_TIME

\* C3: a tick whose integration takes the ball's x beyond FIELD_WIDTH gives
\* player 1 one point, puts the ball at the centre (40, 12) with the
\* countdown at SERVE_TIME = 180 and has player 2 serve (dx < 0); one that
\* takes x below 0 gives player 2 the point and has player 1 serve (dx > 0);
\* also when the paddle-collision step of the same tick inverted dx
C3_ScoreAndServe ==
    [][IsTick =>
          /\ IntegratedX > FIELD_WIDTH * Milli =>
                /\ score1' = score1 + 1 /\ score2' = score2
                /\ AtCentreForServe(ball') /\ ball'.dx < 0
          /\ IntegratedX < 0 =>
                /\ score2' = score2 + 1 /\ score1' = score1
                /\ AtCentreForServe(ball') /\ ball'.dx > 0]_vars

\* the ball went out on the right in a tick whose collision step with
\* paddle 2 had inverted dx
C3_Witness ==
    /\ ev.out = "right" /\ ev.hit2
    /\ score1 = 1 /\ AtCentreForServe(ball) /\ ball.dx < 0

\* an iteration of the accept loop: netconn_accept returned a connection
IsAccept == nconn' = nconn + 1

\* the connection the accept step took, as the model records it afterwards
Accepted == conns'[nconn']

\* the two well-formed identity claims, by slot
HelloMsg(n) == IF n = 1 THEN MSG_HELLO_1 ELSE MSG_HELLO_2

WelcomeMsg(n) == IF n = 1 THEN WELCOME_1 ELSE WELCOME_2

\* the accept step closed the connection it took and bound nothing
Rejected ==
    /\ Accepted.state = "closed"
    /\ clients' = clients
    /\ ready' = ready

\* the accept step bound the connection it took to slot n
BoundTo(n) ==
    /\ Accepted.state = "open"
    /\ clients' = [clients EXCEPT ![n] = [conn |-> nconn', id |-> n]]
    /\ ready' = ready + 1

\* C4: in the accept phase a claim for an occupied slot is rejected: the
\* connection is closed, the slot's binding and the count of ready players
\* stay as they are; a claim for a slot that is still free is accepted,
\* also after such a rejection
C4_DuplicateClaimRejected ==
    [][IsAccept =>
          \A n \in 1..2 :
             Accepted.hello = Recv(HelloMsg(n)) =>
                IF clients[n].conn # NULL THEN Rejected ELSE BoundTo(n)]_vars

\* HELLO:1, HELLO:1, HELLO:2: the second connection was closed, the first
\* holds slot 1 and the third slot 2
C4_Witness ==
    /\ Len(conns) = 3
    /\ conns[1].hello = Recv(MSG_HELLO_1) /\ conns[1].state = "open"
    /\ conns[2].hello = Recv(MSG_HELLO_1) /\ conns[2].state = "closed"
    /\ conns[3].hello = Recv(MSG_HELLO_2) /\ conns[3].state = "open"
    /\ clients[1].conn = 1 /\ clients[2].conn = 3 /\ ready = 2

\* the number an identity claim names: the integer after "HELLO:" when the
\* message is that prefix, an integer and the end of the line; 0 otherwise
ClaimedNumber(r) ==
    IF r.ok /\ LitMatch(r.data, 1, "HELLO:")
    THEN LET n == ScanInt(r.data, 7)
         IN  IF n.ok /\ IsDigit(CharAt(r.data, 7))
                /\ SubSeq(r.data, n.next, Len(r.data)) \in {"", "\n"}
             THEN n.val ELSE 0
    ELSE 0

\* C5: in the accept phase a connection whose first message names neither
\* slot 1 nor slot 2 (nothing received, HELLO:3, HELLO:12, an INPUT line) is
\* closed without being bound, nothing is sent to it and the accept loop
\* goes on
C5_MalformedClaimClosed ==
    [][IsAccept /\ ClaimedNumber(Accepted.hello) \notin {1, 2} =>
          /\ Rejected
          /\ Accepted.welcome = <<>>
          /\ pc' = "accept"]_vars

\* a connection whose first message was HELLO:12 holds slot 1
C5_Witness ==
    \E c \in DOMAIN conns :
       conns[c].hello = Recv(MSG_HELLO_12) /\ clients[1].conn = c

\* both slots are bound, to two connections
BothBound ==
    /\ clients[1].conn # NULL
    /\ clients[2].conn # NULL
    /\ clients[1].conn # clients[2].conn

\* a STATE line has been written to some connection
StateSent == \E c \in DOMAIN conns : conns[c].nstate > 0

\* C6: the server leaves the accept phase for the tick loop once and never
\* returns; no tick runs and no STATE line is sent before both slots are
\* bound to two distinct connections; once the tick loop has started no
\* connection is accepted, bound or rebound
C6_AwaitThenRun ==
    /\ [](ticks > 0 \/ StateSent => pc = "run" /\ BothBound)
    /\ [][/\ pc = "run" =>
                /\ pc' = "run"
                /\ UNCHANGED <<clients, ready, nconn>>
                /\ Len(conns') = Len(conns)
          /\ pc' # pc => pc = "accept" /\ BothBound
          /\ IsTick => pc = "run" /\ BothBound]_vars

\* the tick loop runs after HELLO:2, a rejected claim and HELLO:1
C6_Witness ==
    /\ pc = "run" /\ ticks = MaxLifeTicks /\ StateSent
    /\ clients[2].conn = 1 /\ clients[1].conn = 3
    /\ conns[2].state = "closed"

\* C7: a connection is sent WELCOME n if and only if it was bound to slot n,
\* once, before any STATE line, and n is the number it claimed; a rejected
\* connection is sent nothing
C7_WelcomeAsClaimed ==
    /\ [](\A c \in DOMAIN conns :
             /\ \A n \in 1..2 :
                   WelcomeMsg(n) \in {conns[c].welcome[k] : k \in DOMAIN conns[c].welcome}
                      <=> clients[n].conn = c
             /\ Len(conns[c].welcome) <= 1
             /\ \A n \in 1..2 :
                   conns[c].welcome = <<WelcomeMsg(n)>> =>
                      ClaimedNumber(conns[c].hello) = n
             /\ conns[c].state = "closed" =>
                   conns[c].welcome = <<>> /\ conns[c].nstate = 0)
    /\ [][\A c \in DOMAIN conns :
             conns'[c].nstate > conns[c].nstate =>
                Len(conns[c].welcome) = 1 /\ conns'[c].welcome = conns[c].welcome]_vars

\* a connection that claimed number 12 was sent WELCOME 1
C7_Witness ==
    \E c \in DOMAIN conns :
       /\ ClaimedNumber(conns[c].hello) = 12
       /\ conns[c].welcome = <<WELCOME_1>>

\* C8: every tick serialises one snapshot, of the state its input, paddle,
\* ball, bounce, collision and scoring steps left, and writes the same bytes
\* once to slot 1 and once to slot 2: each stream grows by that one line
C8_OneSnapshotToBoth ==
    [][IsTick =>
          /\ Len(sent') = 2
          /\ sent'[1].to = clients[1].conn /\ sent'[2].to = clients[2].conn
          /\ sent'[1].data = sent'[2].data
          /\ sent'[1].data = Serialize(p1', p2', ball', score1', score2')
          /\ \A n \in 1..2 :
                conns'[clients[n].conn].nstate = conns[clients[n].conn].nstate + 1]_vars

\* the snapshot of a tick that counted a point went to both slots
C8_Witness ==
    /\ ev.out # "none" /\ score1 + score2 = 1
    /\ Len(sent) = 2 /\ sent[1].to = 1 /\ sent[2].to = 2
    /\ sent[1].data = sent[2].data
    /\ conns[1].nstate = ticks /\ conns[2].nstate = ticks

\* a value in 1/Milli units, rounded to two decimals
Round2(v) == RoundHundredths(v) * (Milli \div 100)

\* C9: the client's process_game_state, given the STATE line the server
\* encoded, succeeds and yields the nine fields in their order: the five
\* integers exactly, the four ball fields as the server's values rounded to
\* two decimals
C9_SnapshotRoundTrip ==
    clines = ticks /\ ticks > 0 =>
       /\ cret = 1
       /\ cstate.p1_y = p1.y /\ cstate.p2_y = p2.y
       /\ predicted.x = Round2(ball.x) /\ predicted.y = Round2(ball.y)
       /\ predicted.dx = Round2(ball.dx) /\ predicted.dy = Round2(ball.dy)
       /\ cstate.score1 = score1 /\ cstate.score2 = score2
       /\ cstate.serve_timer = ball.serve_timer

\* a decoded snapshot with two different scores, a ball in flight whose y
\* is negative and rounds away from its value
C9_Witness ==
    /\ clines = ticks /\ ticks > 0 /\ cret = 1
    /\ cstate.score1 = 1234 /\ cstate.score2 = 7
    /\ ball.y < 0 /\ predicted.y # ball.y /\ predicted.dx = -480

\* what reading r does to a stored command that was old and is now new
CommandAfter(r, old, new) ==
    /\ ~r.ok => new = old
    /\ r = Recv(MSG_INPUT_UP) => new = UP
    /\ r = Recv(MSG_INPUT_DOWN) => new = DOWN
    /\ r = Recv(MSG_INPUT_IDLE) => new = NONE

\* C10: a tick does not reset the stored command: when nothing is read from
\* a player's stream the command is unchanged, and the paddle moves one unit
\* in the stored direction; INPUT:UP sets the command to up, INPUT:DOWN to
\* down, INPUT:IDLE to none
C10_CommandPersists ==
    [][IsTick =>
          /\ CommandAfter(ev'.recv1, p1.input, p1'.input)
          /\ CommandAfter(ev'.recv2, p2.input, p2'.input)
          /\ PaddleStep(p1, p1') /\ PaddleStep(p2, p2')]_vars

\* player 2's paddle went down three ticks in a row, the last one without
\* a message; player 1's went up twice and was then stopped by INPUT:IDLE
C10_Witness ==
    /\ ticks = 3
    /\ p2.y = InitialPlayer.y + 3 /\ p2.input = DOWN /\ ev.recv2 = NoData
    /\ p1.y = InitialPlayer.y - 2 /\ p1.input = NONE
    /\ ev.recv1 = Recv(MSG_INPUT_IDLE)

\* the three commands the client sends
RecognizedCommands ==
    {Recv(MSG_INPUT_UP), Recv(MSG_INPUT_DOWN), Recv(MSG_INPUT_IDLE)}

\* the tick read a message from the player's stream that is none of the
\* three commands, and the stored command went from old to new
DiscardedLeaves(r, old, new) == r.ok /\ r \notin RecognizedCommands => new = old

\* C11: the stored command is overwritten only by INPUT:UP, INPUT:DOWN and
\* INPUT:IDLE: a message read with any other content, or one shorter than a
\* command, leaves the stored command as it was
C11_OnlyCommandsOverwrite ==
    [][IsTick =>
          /\ DiscardedLeaves(ev'.recv1, p1.input, p1'.input)
          /\ DiscardedLeaves(ev'.recv2, p2.input, p2'.input)]_vars

\* player 1's paddle went up one tick, then a line that is no command was
\* read and the stored command is none
C11_Witness ==
    /\ ticks = 2
    /\ ev.recv1 = Recv(MSG_GARBAGE)
    /\ p1.y = InitialPlayer.y - 1 /\ p1.input = NONE

RECURSIVE NewlineAt(_, _)
\* the first index at or after i at which s holds a newline, 0 if none
NewlineAt(s, i) ==
    IF i > Len(s) THEN 0
    ELSE IF SubSeq(s, i, i) = "\n" THEN i ELSE NewlineAt(s, i + 1)

RECURSIVE LinesOf(_)
\* the newline-terminated lines of a byte stream, in order, without their
\* newlines; bytes after the last newline belong to no line
LinesOf(s) ==
    IF NewlineAt(s, 1) = 0 THEN <<>>
    ELSE <<SubSeq(s, 1, NewlineAt(s, 1) - 1)>>
         \o LinesOf(SubSeq(s, NewlineAt(s, 1) + 1, Len(s)))

RECURSIVE Concat(_)
\* the bytes of a sequence of payloads, in order
Concat(q) == IF q = <<>> THEN "" ELSE Head(q) \o Concat(Tail(q))

\* the command an input line carries
CommandOf(line) ==
    IF line = "INPUT:UP" THEN UP ELSE IF line = "INPUT:DOWN" THEN DOWN ELSE NONE

\* the stored command of the player of slot i
StoredCommand(i) == IF i = 1 THEN p1.input ELSE p2.input

\* C12: a tick reads once per slot and applies at most one input message:
\* when messages of a client are pending at a tick (queued, or coalesced
\* into one read), the tick applies the oldest and the others stay pending,
\* in order, for the following ticks
C12_BacklogKept ==
    [][IsTick =>
          \A i \in 1..2 :
             LinesOf(Concat(inbox[i])) # <<>> =>
                /\ StoredCommand(i)' = CommandOf(Head(LinesOf(Concat(inbox[i]))))
                /\ LinesOf(Concat(inbox'[i])) = Tail(LinesOf(Concat(inbox[i])))]_vars

\* a tick read INPUT:UP and INPUT:DOWN in one netbuf: up is stored and
\* nothing is left in the queue
C12_Witness ==
    /\ ev.recv1 = Recv(MSG_UP_THEN_DOWN)
    /\ p1.input = UP
    /\ inbox[1] = <<>>

\* C13: in the running engine the absence of an input message never delays
\* the tick: whatever the receive queues hold, and in particular when one or
\* both are empty, the tick can run at once, without a message from either
\* client
C13_TickNeverWaits ==
    pc = "run" /\ ticks < MaxNetTicks => ENABLED TickNet

\* player 2's input is queued, player 1 has sent nothing and its connection
\* works: netconn_recv on slot 1 does not return
C13_Witness ==
    /\ pc = "run" /\ ticks < MaxNetTicks
    /\ inbox[1] = <<>> /\ alive[1]
    /\ inbox[2] # <<>>
    /\ ~ENABLED TickNet

\* a step of the client's main loop
IsFrame == frames' = frames + 1

\* a line as the line loop hands it over: without its newline
Chomp(line) == SubSeq(line, 1, Len(line) - 1)

\* the nine fields of SNAP_A and of SNAP_B, floats in 1/Milli
FieldsOfA ==
    [p1_y |-> 10, p2_y |-> 12, x |-> 40 * Milli, y |-> 12 * Milli,
     dx |-> Milli \div 2, dy |-> Milli \div 10,
     score1 |-> 0, score2 |-> 0, serve_timer |-> 0]

FieldsOfB ==
    [p1_y |-> 9, p2_y |-> 13, x |-> 38 * Milli + Milli \div 2,
     y |-> 11 * Milli + 7 * (Milli \div 10),
     dx |-> -(Milli \div 2), dy |-> -(Milli \div 10),
     score1 |-> 1, score2 |-> 2, serve_timer |-> 180]

\* C14: in a frame that starts more than one second after the client last
\* applied a snapshot, the prediction block leaves the predicted position
\* where it was.
C14_FrozenWhenStale ==
    [][IsFrame /\ cev.snapAt >= 0 /\ now' - cev.snapAt > Second
         => cev'.pred.x = predicted.x /\ cev'.pred.y = predicted.y]_vars

\* SNAP_A is the only snapshot the client ever got, more than a second ago,
\* and the predicted ball is more than a second of motion away from it
C14_Witness ==
    /\ cev.handed = <<Chomp(SNAP_A)>>
    /\ now - cev.snapAt > Second
    /\ predicted.x - FieldsOfA.x > FieldsOfA.dx * ASSUMED_FPS

\* the snapshots among the lines a frame handed to the decoder, by position
SnapshotsIn(lines) ==
    {k \in 1..Len(lines) : lines[k] \in {Chomp(SNAP_A), Chomp(SNAP_B)}}

\* the fields of the last of them
LastSnapshot(lines) ==
    LET last == CHOOSE k \in SnapshotsIn(lines) :
                   \A j \in SnapshotsIn(lines) : j <= k
    IN  IF lines[last] = Chomp(SNAP_A) THEN FieldsOfA ELSE FieldsOfB

\* the clock when the frame's lines were decoded: recv returned cev.wait
\* after the frame began
DecodedAt == now + cev.wait

\* C15: after a frame that decoded a well-formed snapshot line, the predicted
\* ball holds exactly that snapshot's position and velocity, its timestamp is
\* the time of decoding, it is valid, and paddles, scores and serve timer
\* are the snapshot's, whatever was predicted before.
C15_SnapshotOverwrites ==
    [][IsFrame /\ SnapshotsIn(cev'.lines) # {} =>
         LET f == LastSnapshot(cev'.lines)
         IN  /\ predicted' = [x |-> f.x, y |-> f.y, dx |-> f.dx, dy |-> f.dy,
                              last_update |-> DecodedAt', valid |-> 1]
             /\ cstate' = [cstate EXCEPT !.p1_y = f.p1_y, !.p2_y = f.p2_y,
                                         !.score1 = f.score1,
                                         !.score2 = f.score2,
                                         !.serve_timer = f.serve_timer]]_vars

\* SNAP_B was decoded in a frame whose prediction block had moved a valid
\* ball to another place
C15_Witness ==
    /\ cev.lines = <<Chomp(SNAP_B)>>
    /\ cev.pred.valid = 1
    /\ cev.pred.x # FieldsOfA.x /\ cev.pred.x # FieldsOfB.x
    /\ predicted.x = FieldsOfB.x /\ predicted.dx = FieldsOfB.dx
    /\ cstate.serve_timer = FieldsOfB.serve_timer

\* the malformed lines the server model writes
Malformed == {Chomp(WELCOME_1), Chomp(LINE_TRUNCATED), Chomp(LINE_GARBAGE)}

\* C16: a frame that handed lines to the decoder, none of them a well-formed
\* snapshot, leaves the game state as it was and the predicted ball as the
\* frame's prediction block left it; and a well-formed snapshot that follows
\* a malformed line in the same frame is still applied.
C16_MalformedDiscarded ==
    [][IsFrame /\ cev'.lines # <<>> =>
         /\ SnapshotsIn(cev'.lines) = {} =>
               /\ cstate' = cstate
               /\ predicted' = cev'.pred
         /\ SnapshotsIn(cev'.lines) # {} =>
               /\ predicted'.valid = 1
               /\ predicted'.x = LastSnapshot(cev'.lines).x]_vars

\* a frame decoded the truncated STATE line, a frame after a snapshot had
\* been applied
C16_Witness ==
    /\ cev.lines = <<Chomp(LINE_TRUNCATED)>>
    /\ cev.handed = <<Chomp(SNAP_A), Chomp(LINE_TRUNCATED)>>
    /\ cstate.p1_y = FieldsOfA.p1_y
    /\ predicted.valid = 1

\* the bytes of s after its last newline
Trailing(s) ==
    LET ends == {k \in 1..Len(s) : SubSeq(s, k, k) = "\n"}
        last == IF ends = {} THEN 0
                ELSE CHOOSE k \in ends : \A j \in ends : j <= k
    IN  SubSeq(s, last + 1, Len(s))

\* C17: however the stream was cut into reads, the lines handed to the
\* decoder so far are the newline-terminated lines of the bytes read so far,
\* once each and in order, and the buffer holds the bytes after the last
\* newline.
C17_ReassemblyAnyChunks ==
    /\ cev.handed = LinesOf(cev.fed)
    /\ buffer = Trailing(cev.fed)

\* the stream of a welcome, a snapshot and the start of another was read in
\* three reads that cut the welcome and the snapshot in two
C17_Witness ==
    /\ cev.fed = WELCOME_1 \o SNAP_A \o "STATE:1"
    /\ frames = 3
    /\ cev.n = Len("0.10,0,0,0\nSTATE:1")
    /\ cev.lines = <<Chomp(SNAP_A)>>
    /\ cev.handed = <<Chomp(WELCOME_1), Chomp(SNAP_A)>>
    /\ buffer = "STATE:1"
    /\ predicted.x = FieldsOfA.x

\* the prediction is valid and fresh for a frame that starts at time t:
\* less than a second after the last snapshot was applied, or after the
\* timestamp line 299 tests
ValidAndFresh(t) ==
    /\ predicted.valid # 0
    /\ t - cev.snapAt < Second \/ t - predicted.last_update < Second

\* C18: in a frame whose prediction is valid and fresh the prediction block
\* moves the predicted position by (dx * dt * 60, dy * dt * 60), dt the
\* frame time in seconds and (dx, dy) the velocity of the last snapshot: for
\* dt = 1/60 s by (dx, dy) itself; while no snapshot has been applied it does
\* not move it.
C18_PredictionStep ==
    [][IsFrame =>
         /\ ValidAndFresh(now') =>
               /\ Second * (cev'.pred.x - predicted.x)
                     = predicted.dx * cev'.dt * ASSUMED_FPS
               /\ Second * (cev'.pred.y - predicted.y)
                     = predicted.dy * cev'.dt * ASSUMED_FPS
               /\ cev'.dt * ASSUMED_FPS = Second =>
                     /\ cev'.pred.x = predicted.x + predicted.dx
                     /\ cev'.pred.y = predicted.y + predicted.dy
         /\ predicted.valid = 0 =>
               /\ cev'.pred.x = predicted.x
               /\ cev'.pred.y = predicted.y]_vars

\* after SNAP_A, a frame of two thirds of a second, without a snapshot, moved
\* the ball by (0.50 * 40, 0.10 * 40)
C18_Witness ==
    /\ cev.handed = <<Chomp(SNAP_A)>>
    /\ cev.lines = <<>>
    /\ cev.dt = 2 * (Second \div 3)
    /\ predicted.x = FieldsOfA.x + 40 * FieldsOfA.dx
    /\ predicted.y = FieldsOfA.y + 40 * FieldsOfA.dy

\* reset_ball has just run: at the end of the accept phase, or in a tick
\* whose ball left the field
IsReset == (pc = "accept" /\ pc' = "run") \/ (IsTick /\ ev'.out # "none")

\* every sequence of at most MaxDraws values of rand() that holds an
\* acceptable one
Draws ==
    {rs \in UNION {[1..n -> RandValues] : n \in 1..MaxDraws} :
        \E k \in 1..Len(rs) : Abs(SinE4(rs[k] % 1000)) >= MIN_SIN_E4}

\* the first acceptable value of such a sequence
FirstAcceptable(rs) ==
    LET k == CHOOSE k \in 1..Len(rs) :
                /\ Abs(SinE4(rs[k] % 1000)) >= MIN_SIN_E4
                /\ \A j \in 1..(k - 1) : Abs(SinE4(rs[j] % 1000)) < MIN_SIN_E4
    IN  rs[k] % 1000

\* C19: after every reset_ball, the first one and the one after a point, the
\* velocity has |dy| >= 0.3 * speed and |dy| <= sin(30 deg) * speed = speed/2,
\* |dx| >= cos(30 deg) * speed and so dx # 0, at the initial speed; and the
\* redraw loop stops at the first acceptable value rand() yields.
C19_ServeAngle ==
    [][IsReset =>
         /\ ball'.speed = INITIAL_BALL_SPEED
         /\ 10 * Abs(ball'.dy) >= 3 * ball'.speed
         /\ 2 * Abs(ball'.dy) <= ball'.speed
         /\ Milli * Abs(ball'.dx) >= 866 * ball'.speed
         /\ ball'.dx # 0
         /\ \A rs \in Draws : DrawAngle(rs, 1) = FirstAcceptable(rs)]_vars

\* a point for player 1 was followed by a serve towards player 1 at the
\* shallowest angle the loop keeps
C19_Witness ==
    /\ ev.out = "right"
    /\ score1 = 4
    /\ ball.serve_timer = SERVE_TIME
    /\ ball.dx < 0
    /\ ball.dy = (3 * INITIAL_BALL_SPEED) \div 10

\* the transport of some slot has failed
SomeSlotFailed == \E i \in 1..2 : ~alive[i]

\* C20: once the transport of a slot has failed, the main loop still runs a
\* tick whenever every working connection has input for it (the failed one
\* never holds it up); the engine never leaves the main loop and never
\* clears or rebinds a slot; each tick still writes one snapshot to each
\* slot, the failed one included, and applies the input a working
\* connection delivered.
C20_TransportErrorNotFatal ==
    /\ [](/\ pc = "run" /\ ticks < MaxNetTicks /\ SomeSlotFailed
          /\ \A i \in 1..2 : alive[i] => inbox[i] # <<>>
          => ENABLED TickNet)
    /\ [][pc = "run" => pc' = "run" /\ clients' = clients /\ ready' = ready]_vars
    /\ [][IsTick /\ SomeSlotFailed =>
            \A i \in 1..2 :
               /\ WritesTo(sent', clients[i].conn) = 1
               /\ inbox[i] # <<>> =>
                     StoredCommand(i)' = CommandOf(Head(LinesOf(Head(inbox[i]))))]_vars

\* the client of slot 1 is gone and its queue is drained: the tick's read on
\* slot 1 failed, the down of player 2 was applied and moved its paddle, and
\* both slots were written to
C20_Witness ==
    /\ ~alive[1]
    /\ ev.recv1 = NoData
    /\ ev.recv2 = Recv(MSG_INPUT_DOWN)
    /\ p2.input = DOWN
    /\ p2.y > InitialPlayer.y
    /\ clients[1].conn # NULL
    /\ WritesTo(sent, clients[1].conn) = 1
    /\ WritesTo(sent, clients[2].conn) = 1
    /\ ticks >= 2

\* the tick did not call reset_ball
NoReset == ev'.out = "none"

\* C21: once the game is initialised the ball's speed lies in
\* [INITIAL_BALL_SPEED, MAX_BALL_SPEED]; a tick without a serve reset leaves
\* the speed and the magnitudes of dx and dy as they were: the boundary
\* bounce negates dy and nothing else does, a paddle collision negates dx and
\* nothing else does.
C21_SpeedConstant ==
    /\ [](pc = "run" =>
            INITIAL_BALL_SPEED <= ball.speed /\ ball.speed <= MAX_BALL_SPEED)
    /\ [][IsTick /\ NoReset =>
            /\ ball'.speed = ball.speed
            /\ ball'.dy = IF ev'.bounce THEN -ball.dy ELSE ball.dy
            /\ ball'.dx = IF ev'.hit1 \/ ev'.hit2 THEN -ball.dx ELSE ball.dx]_vars

\* the right paddle has just sent back a ball that had bounced off the top
\* edge before
C21_Witness ==
    /\ ev.hit2 /\ ev.out = "none" /\ ~ev.bounce
    /\ ball.speed = INITIAL_BALL_SPEED
    /\ ball.dx = -433 /\ ball.dy = 250

\* C22: the serve countdown lies in [0, SERVE_TIME]; a tick takes exactly
\* one off it, leaves it at 0, or sets it to SERVE_TIME, the last only when
\* the tick awarded a point; outside ticks only the initialisation of the
\* game sets it, to SERVE_TIME.
C22_CountdownSteps ==
    /\ [](0 <= ball.serve_timer /\ ball.serve_timer <= SERVE_TIME)
    /\ [][IsTick =>
            /\ \/ ball.serve_timer > 0 /\ ball'.serve_timer = ball.serve_timer - 1
               \/ ball.serve_timer = 0 /\ ball'.serve_timer = 0
               \/ ball'.serve_timer = SERVE_TIME /\ OneMorePoint
            /\ OneMorePoint => ball'.serve_timer = SERVE_TIME]_vars
    /\ [][~IsTick /\ ball'.serve_timer # ball.serve_timer =>
            pc = "accept" /\ pc' = "run" /\ ball'.serve_timer = SERVE_TIME]_vars

\* the countdown of the first serve ran out, the ball flew and a point set
\* it again
C22_Witness ==
    /\ ticks > SERVE_TIME
    /\ ev.out # "none"
    /\ score1 + score2 = 1
    /\ ball.serve_timer = SERVE_TIME

\* C23: after each frame the client can run the next one to its end, also
\* when the server has written nothing since.
C23_FrameNeverWaits == 0 < frames /\ frames < MaxFrames => ENABLED Frame

\* the client has run a frame, the connection stands, the server has written
\* nothing more: the frame is held in recv
C23_Witness ==
    /\ 0 < frames /\ frames < MaxFrames
    /\ linkup /\ wire = ""
    /\ cev.handed = <<Chomp(WELCOME_1), Chomp(SNAP_A)>>
    /\ ~ENABLED Frame

\* the ball's y after the integration step of a tick that starts in the
\* current state (lines 225-233)
IntegratedY == IF ball.serve_timer > 0 THEN ball.y ELSE ball.y + ball.dy

\* the integrated ball lies within the vertical extent of paddle q, q being
\* the paddle as the tick has just moved it
AlongPaddle(q) ==
    /\ q.y * Milli <= IntegratedY
    /\ IntegratedY <= (q.y + PADDLE_HEIGHT) * Milli

\* C24: a tick turns the ball at the left paddle if and only if, after the
\* integration, dx < 0, x <= 4 and p1.y <= y <= p1.y + PADDLE_HEIGHT, and at
\* the right paddle if and only if dx > 0, x >= 76 and p2.y <= y <= p2.y +
\* PADDLE_HEIGHT, the paddles taken where this tick moved them; a ball
\* travelling away from a paddle is not turned by it, and dx changes sign
\* at most once in a tick.
C24_PaddleCollision ==
    [][IsTick =>
          /\ ev'.hit1 <=> /\ ball.dx < 0
                          /\ IntegratedX <= 4 * Milli
                          /\ AlongPaddle(p1')
          /\ ev'.hit2 <=> /\ ball.dx > 0
                          /\ IntegratedX >= 76 * Milli
                          /\ AlongPaddle(p2')
          /\ ball.dx > 0 => ~ev'.hit1
          /\ ball.dx < 0 => ~ev'.hit2
          /\ ~(ev'.hit1 /\ ev'.hit2)
          /\ NoReset =>
                ball'.dx = IF ev'.hit1 \/ ev'.hit2 THEN -ball.dx ELSE ball.dx]_vars

\* player 2's paddle met the ball in a tick that had just moved the paddle
\* up, at a height it did not cover before that move
C24_Witness ==
    /\ ev.hit2 /\ ev.out = "none"
    /\ ev.recv2 = Recv(MSG_INPUT_UP)
    /\ ball.dx < 0
    /\ ball.y < (p2.y + 1) * Milli

\* the ball at the centre of the field
AtCentre(b) ==
    /\ b.x = (FIELD_WIDTH \div 2) * Milli
    /\ b.y = (FIELD_HEIGHT \div 2) * Milli

\* C25: after a serve reset the ball rests at the centre (40, 12) for the
\* next SERVE_TIME ticks: a tick that starts with the countdown above 0
\* takes one off the countdown and leaves the ball where it is, and counts
\* no point, bounce or paddle hit; the ball first moves in the tick that
\* starts with the countdown at 0.
C25_ServePause ==
    /\ [](pc = "run" /\ ball.serve_timer > 0 => AtCentre(ball))
    /\ [](pc = "run" /\ score1 + score2 = 0 /\ ticks <= SERVE_TIME =>
              AtCentre(ball) /\ ball.serve_timer = SERVE_TIME - ticks)
    /\ [][IsTick /\ ball.serve_timer > 0 =>
              /\ ball'.serve_timer = ball.serve_timer - 1
              /\ ball'.x = ball.x /\ ball'.y = ball.y
              /\ ball'.dx = ball.dx /\ ball'.dy = ball.dy
              /\ ScoreUnchanged
              /\ ev'.out = "none"
              /\ ~ev'.bounce /\ ~ev'.hit1 /\ ~ev'.hit2]_vars
    /\ [][IsTick /\ ball.serve_timer = 0 /\ AtCentre(ball) =>
              /\ ball'.x = ball.x + ball.dx /\ ball'.y = ball.y + ball.dy
              /\ ball'.x # ball.x]_vars
    /\ [][IsTick /\ ball.serve_timer = 0 /\ NoReset =>
              ball'.x = ball.x + ball.dx /\ ball'.y = ball.y + ball.dy]_vars

\* the tick after the first countdown ran out: the ball is one step away
\* from the centre
C25_Witness ==
    /\ ticks = SERVE_TIME + 1
    /\ ball.serve_timer = 0
    /\ ball.x = (FIELD_WIDTH \div 2) * Milli + ball.dx
    /\ ball.y = (FIELD_HEIGHT \div 2) * Milli + ball.dy
    /\ ball.dx # 0

\* y lies above the top edge or below the bottom edge of the field
OutsideVertically(y) == y < 0 \/ y > (FIELD_HEIGHT - 1) * Milli

\* C26: whenever the ball's y after the integration is < 0 or > 23, the tick
\* negates dy and leaves y as integrated, and only then; the ball is never
\* outside [0, 23] by more than |dy|, it is back inside after the next tick
\* that moves it, and no two consecutive ticks both negate dy at the edges.
C26_BoundaryBounce ==
    /\ [][IsTick =>
              /\ ev'.bounce <=> OutsideVertically(IntegratedY)
              /\ NoReset =>
                    /\ ball'.y = IntegratedY
                    /\ ball'.dy = IF ev'.bounce THEN -ball.dy ELSE ball.dy]_vars
    /\ [](pc = "run" =>
              /\ ball.y >= -Abs(ball.dy)
              /\ ball.y <= (FIELD_HEIGHT - 1) * Milli + Abs(ball.dy))
    /\ [][IsTick /\ OutsideVertically(ball.y) /\ ball.serve_timer = 0 =>
              ~OutsideVertically(ball'.y)]_vars
    /\ [](OutsideVertically(ball.y) => ball.serve_timer = 0)
    /\ [][IsTick => ~(ev.bounce /\ ev'.bounce)]_vars

\* the ball went through the top edge: it lies above the field, already
\* heading back down
C26_Witness ==
    /\ ev.bounce /\ ev.out = "none"
    /\ ball.y < 0
    /\ ball.dy > 0

\* the command a player holds once the tick has read r from that player's
\* connection, old being the command held before
OwnCommand(r, old) ==
    IF r.ok /\ Len(r.data) >= 5
    THEN IF SubSeq(r.data, 1, Min(Len(r.data), 8)) = INPUT_UP THEN UP
         ELSE IF SubSeq(r.data, 1, Min(Len(r.data), 10)) = INPUT_DOWN THEN DOWN
         ELSE NONE
    ELSE old

\* player p one tick later when the tick read r from that player's own
\* connection: nothing else enters
OwnStep(p, r) ==
    LET in == OwnCommand(r, p.input)
        t == p.y + CommandDelta(in)
    IN  [y |-> IF t < 0 THEN 0
               ELSE IF t > FIELD_HEIGHT - PADDLE_HEIGHT
                    THEN FIELD_HEIGHT - PADDLE_HEIGHT ELSE t,
         input |-> in]

\* C27: what a tick reads from the connection bound to slot k changes only
\* player k's stored command and paddle: each player after a tick is a
\* function of that player before it and of what was read from that player's
\* own connection, so runs that differ only in the other player's messages
\* agree on this player at every tick; the slots keep their connections and
\* numbers through the run, whichever order the clients connected in.
C27_InputIsolation ==
    /\ [][IsTick =>
              /\ p1' = OwnStep(p1, ev'.recv1)
              /\ p2' = OwnStep(p2, ev'.recv2)
              /\ clients' = clients]_vars
    /\ [](pc = "run" =>
              /\ clients[1].id = 1 /\ clients[2].id = 2
              /\ clients[1].conn # clients[2].conn)

\* player 2 connected first; a tick read INPUT:UP from player 1 and nothing
\* from player 2: player 1's paddle went up, player 2 is as the game began
C27_Witness ==
    /\ pc = "run" /\ ticks = 1
    /\ clients[2].conn < clients[1].conn
    /\ ev.recv1 = Recv(MSG_INPUT_UP) /\ ev.recv2 = NoData
    /\ p1 = [y |-> InitialPlayer.y - 1, input |-> UP]
    /\ p2 = InitialPlayer

\* the client decoded one more line of the server
IsDecode == clines' = clines + 1

\* C28: every snapshot the server broadcasts shows the ball's x within
\* [0, FIELD_WIDTH], and a snapshot whose scores differ from those of the
\* snapshot before it shows the ball at the centre (40, 12) with the serve
\* countdown at SERVE_TIME. The snapshots are taken as the client decodes
\* them, one after the other.
C28_SnapshotInField ==
    [][IsDecode =>
          /\ cret' = 1
          /\ 0 <= predicted'.x /\ predicted'.x <= FIELD_WIDTH * Milli
          /\ clines >= 1
             /\ (cstate'.score1 # cstate.score1 \/ cstate'.score2 # cstate.score2)
             => /\ predicted'.x = (FIELD_WIDTH \div 2) * Milli
                /\ predicted'.y = (FIELD_HEIGHT \div 2) * Milli
                /\ cstate'.serve_timer = SERVE_TIME]_vars

\* the second snapshot was decoded; its tick took the ball out on the right:
\* player 1 has a point more than in the first snapshot and the ball is shown
\* at the centre
C28_Witness ==
    /\ clines = 2 /\ ticks = 2 /\ cret = 1
    /\ ev.out = "right"
    /\ cstate.score1 \in {1, 1235}
    /\ predicted.x = (FIELD_WIDTH \div 2) * Milli
    /\ cstate.serve_timer = SERVE_TIME

=============================================================================
